---- MODULE Spec2Model ----
(***************************************************************************)
(* Model of the Bruno backend (backend/main.py and backend/api/*.py):      *)
(* the rate-limited pipeline endpoints /api/generate-stream and            *)
(* /api/generate, the four stage adapters they call in sequence, the Suno  *)
(* status poller, and the transient files a run leaves on disk.            *)
(*                                                                         *)
(* Units: video durations are in hundredths of a second, poller times in   *)
(* seconds, the limiter clock in half hours.                               *)
(***************************************************************************)
EXTENDS Integers, Sequences, FiniteSets, TLC

\* ---------------------------------------------------------------- bounds
\* cap on the per-key hit counter of the limiter (rejected hits count too)
MaxHits == 4
\* latency, in seconds, of a status fetch that does not answer at once
SlowFetch == 5
\* number of slow status fetches in one poll
MaxSlowFetches == 1

\* pipeline runs under way at the same time
NumJobs == 2

\* longest clip, in seconds, handed to the merge
MaxLen == 8

\* most lines in a generated prompt text
MaxLines == 4

\* ------------------------------------------------------ program constants
POLL_INTERVAL == 5
MAX_WAIT_TIME == 300
\* "if duration > 60", in hundredths of a second
MaxDuration == 6000
\* @limiter.limit("3/hour"): the budget and the window (in half hours)
Budget == 3
Hour == 2
\* @limiter.limit("5/hour") of the debug endpoints
DebugBudget == 5

\* ----------------------------------------------------------------- inputs
Callers == {"c1"}
Endpoints == {"stream", "generate"}
DebugEndpoints == {"analyze_only", "prompt_only"}
\* the limiter keeps one counter per caller and route
Keys == Callers \X (Endpoints \cup DebugEndpoints)
\* the uploaded video: its measured duration, or a file whose duration
\* get_video_duration cannot read
Durations == {0, 1740, 6000, 6001, 9000}
NoVideo == [readable |-> FALSE, duration |-> 0]
Videos == {[readable |-> TRUE, duration |-> d] : d \in Durations}
          \cup {NoVideo}
Urls == {"url1", "url2"}
Latencies == {0, SlowFetch}

NoOutcome == [kind |-> "none", status |-> 0, stage |-> "", cause |-> ""]
NoStatus == [status |-> "none", audio_url |-> "", error_message |-> ""]

VARIABLES
    hits,          \* limiter storage: key -> hits counted in the key's window
    window,        \* limiter storage: key -> half hours until the key expires
    caller, ep,    \* the request being served
    pc,            \* position of the run
    video,         \* the uploaded video
    files,         \* transient files of this run that exist on disk
    final_output,  \* outputs/output_<name>.mp4 written by this run
    events,        \* progress records yielded by progress_generator
    calls,         \* stage adapters invoked in this run, in order
    returned,      \* stage adapters that returned successfully in this run
    outcome,       \* what the caller is told at the end
    unlinkFailed,  \* an os.unlink of this run raised
    elapsed,       \* _poll_for_completion: elapsed
    status_obj,    \* _poll_for_completion: the last status fetched
    audio_url,     \* value returned by _poll_for_completion
    sunoRequests,  \* kinds of request sent to the Suno API in this run
    probe,         \* TRUE when a stopwatch and a fetch counter are attached
    wall,          \* stopwatch: seconds since the job was submitted
    fetches,       \* fetch counter: status fetches issued by the poller
    steady,        \* probe: every status fetched so far was "processing"
    jobs,          \* concurrent runs: job -> its endpoint, filename, position
    outputs,       \* concurrent runs: the outputs directory, name -> content
    calc           \* a pure computation: its inputs and its result

vars == <<hits, window, caller, ep, pc, video, files, final_output, events,
          calls, returned, outcome, unlinkFailed, elapsed, status_obj,
          audio_url, sunoRequests, probe, wall, fetches, steady, jobs,
          outputs, calc>>

limiterVars == <<hits, window>>
requestVars == <<caller, ep, video, probe>>
pollVars == <<elapsed, status_obj, audio_url, sunoRequests, wall, fetches,
              steady>>
auxVars == <<jobs, outputs, calc>>

\* no concurrent runs and no computation are being looked at
NoAux ==
    /\ jobs = <<>>
    /\ outputs = <<>>
    /\ calc = <<>>

\* state of a run that has not started
FreshRun ==
    /\ video = NoVideo
    /\ files = {}
    /\ final_output = FALSE
    /\ events = <<>>
    /\ calls = <<>>
    /\ returned = {}
    /\ outcome = NoOutcome
    /\ unlinkFailed = FALSE
    /\ elapsed = 0
    /\ status_obj = NoStatus
    /\ audio_url = ""
    /\ sunoRequests = {}
    /\ wall = 0
    /\ fetches = 0
    /\ steady = TRUE

Init ==
    /\ hits = [k \in Keys |-> 0]
    /\ window = [k \in Keys |-> 0]
    /\ caller = "none"
    /\ ep = "none"
    /\ pc = "idle"
    /\ probe = FALSE
    /\ FreshRun
    /\ NoAux


\* ------------------------------------------------------ admission control
\* hits counted for key k in its current window (an expired key counts 0)
Count(k) == IF window[k] = 0 THEN 0 ELSE hits[k]

\* the budget of a route: 3/hour on the pipeline, 5/hour on the debug routes
BudgetOf(k) == IF k[2] \in Endpoints THEN Budget ELSE DebugBudget

\* mutant of Admitted: the budget is compared before the hit is counted
AdmittedLate(k) == Count(k) <= BudgetOf(k)

\* limiter.limit("3/hour"): the hit is counted, then compared to the budget
Admitted(k) == Count(k) + 1 <= BudgetOf(k)

\* the hit itself: the counter is incremented and a new window is opened
\* by the first hit of a key
Hit(k) ==
    /\ hits' = [hits EXCEPT ![k] = Count(k) + 1]
    /\ window' = IF Count(k) = 0 THEN [window EXCEPT ![k] = Hour] ELSE window

\* half an hour passes between two requests; a key whose window ends is
\* dropped from the storage
Tick ==
    /\ pc = "idle"
    /\ \E k \in Keys : window[k] > 0
    /\ window' = [k \in Keys |-> IF window[k] > 0 THEN window[k] - 1 ELSE 0]
    /\ hits' = [k \in Keys |-> IF window[k] > 1 THEN hits[k] ELSE 0]
    /\ UNCHANGED <<requestVars, auxVars, pollVars, pc, files, final_output, events,
                   calls, returned, outcome, unlinkFailed>>

\* ------------------------------------------------------------- responses
Rejected429 == [kind |-> "rate_limited", status |-> 429, stage |-> "",
                cause |-> "rate_limit_exceeded"]
BadRequest400 == [kind |-> "error", status |-> 400, stage |-> "",
                  cause |-> "not_a_video"]
Done200 == [kind |-> "done", status |-> 200, stage |-> "", cause |-> ""]

ErrorEvent == [stage |-> "error", progress |-> 0]
Event(stage, progress) == [stage |-> stage, progress |-> progress]

\* mutant of RaiseFrom: the except clause of progress_generator only logs
RaiseFromSilent(evs, stage, cause) ==
    /\ pc' = "finally"
    /\ events' = evs
    /\ outcome' = [kind |-> "error",
                   status |-> IF ep = "stream" THEN 200
                              ELSE IF cause = "too_long" THEN 400 ELSE 500,
                   stage |-> IF ep = "stream" THEN "" ELSE stage,
                   cause |-> cause]

\* the except clauses of the two handlers, entered after the records evs
\* were yielded: progress_generator yields the error record;
\* generate_video_with_audio raises HTTPException, with the stage named when
\* the exception came out of a stage's own try block
RaiseFrom(evs, stage, cause) ==
    /\ pc' = "finally"
    /\ IF ep = "stream"
       THEN /\ events' = Append(evs, ErrorEvent)
            /\ outcome' = [kind |-> "error", status |-> 200, stage |-> "",
                           cause |-> cause]
       ELSE /\ events' = evs
            /\ outcome' = [kind |-> "error",
                           status |-> IF cause = "too_long" THEN 400 ELSE 500,
                           stage |-> stage, cause |-> cause]

Raise(stage, cause) == RaiseFrom(events, stage, cause)

\* mutant of TooLong: the ceiling is one hundredth of a second too high
TooLongLax(d) == d > MaxDuration + 1

\* the duration ceiling of both handlers: duration > 60
TooLong(d) == d > MaxDuration

\* generate_suno_prompt: a duration that is falsy is refused, then the
\* remote call succeeds or fails
ComposePrompt(d) ==
    IF d = 0 THEN {"duration_required"} ELSE {"ok", "prompt_failed"}

\* combine_video_audio on the files fs: loading a clip fails; or the output
\* temp file is created and writing it fails or succeeds
combine_video_audio(fs) ==
    { [cause |-> "load_failed", files |-> fs],
      [cause |-> "write_failed", files |-> fs \cup {"merged"}],
      [cause |-> "", files |-> fs \cup {"merged"}] }

\* "Clean up temp files": the audio file, then the merged file, is deleted;
\* os.unlink may raise
CleanUp(fs) ==
    { [ok |-> FALSE, files |-> fs],
      [ok |-> FALSE, files |-> fs \ {"audio"}],
      [ok |-> TRUE, files |-> fs \ {"audio", "merged"}] }

\* a request arrives at a pipeline endpoint: the limiter decides, then the
\* body checks the content type and saves the upload to a temp file
Request(c, e) ==
    /\ pc = "idle"
    /\ Count(<<c, e>>) < MaxHits
    /\ Hit(<<c, e>>)
    /\ caller' = c
    /\ ep' = e
    /\ final_output' = FALSE
    /\ events' = <<>>
    /\ calls' = <<>>
    /\ returned' = {}
    /\ unlinkFailed' = FALSE
    /\ elapsed' = 0
    /\ status_obj' = NoStatus
    /\ audio_url' = ""
    /\ sunoRequests' = {}
    /\ wall' = 0
    /\ fetches' = 0
    /\ steady' = TRUE
    /\ UNCHANGED <<probe, auxVars>>
    /\ IF ~Admitted(<<c, e>>)
       THEN /\ outcome' = Rejected429
            /\ pc' = "idle"
            /\ video' = NoVideo
            /\ files' = {}
       ELSE \E is_video \in BOOLEAN, v \in Videos :
              IF ~is_video
              THEN /\ outcome' = BadRequest400
                   /\ pc' = "idle"
                   /\ video' = NoVideo
                   /\ files' = {}
              ELSE /\ outcome' = NoOutcome
                   /\ pc' = "validate"
                   /\ video' = v
                   /\ files' = {"upload"}

\* ------------------------------------------------ /api/generate-stream
\* progress_generator up to the first stage: the upload record, the
\* duration check, the record announcing the analysis
StreamValidate ==
    /\ ep = "stream" /\ pc = "validate"
    /\ IF ~video.readable
       THEN RaiseFrom(Append(events, Event("uploading", 10)), "",
                      "no_duration")
       ELSE IF TooLong(video.duration)
       THEN RaiseFrom(Append(events, Event("uploading", 10)), "", "too_long")
       ELSE /\ pc' = "analyze"
            /\ events' = events \o <<Event("uploading", 10),
                                     Event("analyzing", 15)>>
            /\ outcome' = outcome
    /\ UNCHANGED <<limiterVars, requestVars, auxVars, pollVars, files, final_output,
                   calls, returned, unlinkFailed>>

\* Step 1: analyze_video, then the records closing the stage and opening
\* the next
StreamAnalyze ==
    /\ ep = "stream" /\ pc = "analyze"
    /\ calls' = Append(calls, "analyze")
    /\ \E ok \in BOOLEAN :
         IF ok
         THEN /\ pc' = "prompt"
              /\ returned' = returned \cup {"analyze"}
              /\ events' = events \o <<Event("analyzing", 35),
                                       Event("prompting", 40)>>
              /\ outcome' = outcome
         ELSE /\ Raise("", "analysis_failed")
              /\ returned' = returned
    /\ UNCHANGED <<limiterVars, requestVars, auxVars, pollVars, files, final_output,
                   unlinkFailed>>

\* mutant of StreamPrompt: the record closing the stage carries 50
StreamPromptOff ==
    /\ ep = "stream" /\ pc = "prompt"
    /\ calls' = Append(calls, "prompt")
    /\ \E r \in ComposePrompt(video.duration) :
         IF r = "ok"
         THEN /\ pc' = "audio"
              /\ returned' = returned \cup {"prompt"}
              /\ events' = events \o <<Event("prompting", 50),
                                       Event("generating", 60)>>
              /\ outcome' = outcome
         ELSE /\ Raise("", r)
              /\ returned' = returned
    /\ UNCHANGED <<limiterVars, requestVars, auxVars, pollVars, files, final_output,
                   unlinkFailed>>

\* Step 2: generate_suno_prompt
StreamPrompt ==
    /\ ep = "stream" /\ pc = "prompt"
    /\ calls' = Append(calls, "prompt")
    /\ \E r \in ComposePrompt(video.duration) :
         IF r = "ok"
         THEN /\ pc' = "audio"
              /\ returned' = returned \cup {"prompt"}
              /\ events' = events \o <<Event("prompting", 55),
                                       Event("generating", 60)>>
              /\ outcome' = outcome
         ELSE /\ Raise("", r)
              /\ returned' = returned
    /\ UNCHANGED <<limiterVars, requestVars, auxVars, pollVars, files, final_output,
                   unlinkFailed>>

\* Step 3: the call of generate_audio
StreamAudio ==
    /\ ep = "stream" /\ pc = "audio"
    /\ calls' = Append(calls, "audio")
    /\ pc' = "submit"
    /\ UNCHANGED <<limiterVars, requestVars, auxVars, pollVars, files, final_output,
                   events, returned, outcome, unlinkFailed>>

\* Step 4: combine_video_audio
StreamMerge ==
    /\ ep = "stream" /\ pc = "merge"
    /\ calls' = Append(calls, "merge")
    /\ \E r \in combine_video_audio(files) :
         /\ files' = r.files
         /\ IF r.cause = ""
            THEN /\ pc' = "copy"
                 /\ returned' = returned \cup {"merge"}
                 /\ UNCHANGED <<events, outcome>>
            ELSE /\ Raise("", r.cause)
                 /\ returned' = returned
    /\ UNCHANGED <<limiterVars, requestVars, auxVars, pollVars, final_output,
                   unlinkFailed>>

\* mutant of StreamCopy: a failed copy is only logged
StreamCopyIgnored ==
    /\ ep = "stream" /\ pc = "copy"
    /\ \E ok \in BOOLEAN :
         /\ final_output' = ok
         /\ pc' = "cleanup"
         /\ UNCHANGED <<events, outcome>>
    /\ UNCHANGED <<limiterVars, requestVars, auxVars, pollVars, files, calls,
                   returned, unlinkFailed>>

\* the copy of the merged file to the outputs directory
StreamCopy ==
    /\ ep = "stream" /\ pc = "copy"
    /\ \E ok \in BOOLEAN :
         IF ok
         THEN /\ final_output' = TRUE
              /\ pc' = "cleanup"
              /\ UNCHANGED <<events, outcome>>
         ELSE /\ Raise("", "copy_failed")
              /\ final_output' = final_output
    /\ UNCHANGED <<limiterVars, requestVars, auxVars, pollVars, files, calls, returned,
                   unlinkFailed>>

\* the deletion of the audio and merged temp files, then the done record
StreamCleanup ==
    /\ ep = "stream" /\ pc = "cleanup"
    /\ \E r \in CleanUp(files) :
         /\ files' = r.files
         /\ unlinkFailed' = ~r.ok
         /\ IF r.ok
            THEN /\ events' = Append(events, Event("done", 100))
                 /\ outcome' = Done200
                 /\ pc' = "finally"
            ELSE Raise("", "unlink_failed")
    /\ UNCHANGED <<limiterVars, requestVars, auxVars, pollVars, final_output, calls,
                   returned>>

\* finally: the upload is deleted, a failure to delete it is swallowed
StreamFinally ==
    /\ ep = "stream" /\ pc = "finally"
    /\ pc' = "idle"
    /\ \E ok \in BOOLEAN :
         IF "upload" \in files /\ ~ok
         THEN /\ unlinkFailed' = TRUE
              /\ files' = files
         ELSE /\ unlinkFailed' = unlinkFailed
              /\ files' = files \ {"upload"}
    /\ UNCHANGED <<limiterVars, requestVars, auxVars, pollVars, final_output, events,
                   calls, returned, outcome>>


\* --------------------------------------------------------- /api/generate
\* the handler up to the first stage: duration and its ceiling
GenerateValidate ==
    /\ ep = "generate" /\ pc = "validate"
    /\ IF ~video.readable
       THEN Raise("", "no_duration")
       ELSE IF TooLong(video.duration)
       THEN Raise("", "too_long")
       ELSE /\ pc' = "analyze"
            /\ UNCHANGED <<events, outcome>>
    /\ UNCHANGED <<limiterVars, requestVars, auxVars, pollVars, files, final_output,
                   calls, returned, unlinkFailed>>

\* mutant of GenerateAnalyze: the except clause logs the failure and the
\* handler goes on to the next stage
GenerateAnalyzeSwallow ==
    /\ ep = "generate" /\ pc = "analyze"
    /\ calls' = Append(calls, "analyze")
    /\ \E ok \in BOOLEAN :
         /\ pc' = "prompt"
         /\ returned' = IF ok THEN returned \cup {"analyze"} ELSE returned
         /\ UNCHANGED <<events, outcome>>
    /\ UNCHANGED <<limiterVars, requestVars, auxVars, pollVars, files, final_output,
                   unlinkFailed>>

\* STEP 1: analyze_video in its own try block
GenerateAnalyze ==
    /\ ep = "generate" /\ pc = "analyze"
    /\ calls' = Append(calls, "analyze")
    /\ \E ok \in BOOLEAN :
         IF ok
         THEN /\ pc' = "prompt"
              /\ returned' = returned \cup {"analyze"}
              /\ UNCHANGED <<events, outcome>>
         ELSE /\ Raise("GCP Analysis", "analysis_failed")
              /\ returned' = returned
    /\ UNCHANGED <<limiterVars, requestVars, auxVars, pollVars, files, final_output,
                   unlinkFailed>>

\* STEP 2: generate_suno_prompt in its own try block
GeneratePrompt ==
    /\ ep = "generate" /\ pc = "prompt"
    /\ calls' = Append(calls, "prompt")
    /\ \E r \in ComposePrompt(video.duration) :
         IF r = "ok"
         THEN /\ pc' = "audio"
              /\ returned' = returned \cup {"prompt"}
              /\ UNCHANGED <<events, outcome>>
         ELSE /\ Raise("OpenAI Prompt Generation", r)
              /\ returned' = returned
    /\ UNCHANGED <<limiterVars, requestVars, auxVars, pollVars, files, final_output,
                   unlinkFailed>>

\* STEP 3: the call of generate_audio
GenerateAudio ==
    /\ ep = "generate" /\ pc = "audio"
    /\ calls' = Append(calls, "audio")
    /\ pc' = "submit"
    /\ UNCHANGED <<limiterVars, requestVars, auxVars, pollVars, files, final_output,
                   events, returned, outcome, unlinkFailed>>

\* STEP 4: combine_video_audio in its own try block
GenerateMerge ==
    /\ ep = "generate" /\ pc = "merge"
    /\ calls' = Append(calls, "merge")
    /\ \E r \in combine_video_audio(files) :
         /\ files' = r.files
         /\ IF r.cause = ""
            THEN /\ pc' = "copy"
                 /\ returned' = returned \cup {"merge"}
                 /\ UNCHANGED <<events, outcome>>
            ELSE /\ Raise("Media Combination", r.cause)
                 /\ returned' = returned
    /\ UNCHANGED <<limiterVars, requestVars, auxVars, pollVars, final_output,
                   unlinkFailed>>

\* the copy to the outputs directory and the check that it is not empty
GenerateCopy ==
    /\ ep = "generate" /\ pc = "copy"
    /\ \E r \in {"ok", "copy_failed", "empty_output"} :
         /\ final_output' = (r # "copy_failed")
         /\ IF r = "ok"
            THEN /\ pc' = "cleanup"
                 /\ UNCHANGED <<events, outcome>>
            ELSE Raise("", r)
    /\ UNCHANGED <<limiterVars, requestVars, auxVars, pollVars, files, calls, returned,
                   unlinkFailed>>

\* the deletion of the audio and merged temp files, then the response
\* carrying the bytes of the final file
GenerateCleanup ==
    /\ ep = "generate" /\ pc = "cleanup"
    /\ \E r \in CleanUp(files) :
         /\ files' = r.files
         /\ unlinkFailed' = ~r.ok
         /\ IF r.ok
            THEN /\ outcome' = Done200
                 /\ pc' = "finally"
                 /\ events' = events
            ELSE Raise("", "unlink_failed")
    /\ UNCHANGED <<limiterVars, requestVars, auxVars, pollVars, final_output, calls,
                   returned>>

\* finally: the upload is deleted; an os.unlink that raises here replaces
\* the response
GenerateFinally ==
    /\ ep = "generate" /\ pc = "finally"
    /\ pc' = "idle"
    /\ \E ok \in BOOLEAN :
         IF "upload" \in files /\ ~ok
         THEN /\ unlinkFailed' = TRUE
              /\ files' = files
              /\ outcome' = [kind |-> "error", status |-> 500, stage |-> "",
                             cause |-> "unlink_failed"]
         ELSE /\ unlinkFailed' = unlinkFailed
              /\ files' = files \ {"upload"}
              /\ outcome' = outcome
    /\ UNCHANGED <<limiterVars, requestVars, auxVars, pollVars, final_output, events,
                   calls, returned>>

\* ------------------------------------ /api/analyze-only, /api/prompt-only
DebugDone == [kind |-> "done", status |-> 200, stage |-> "", cause |-> ""]

DebugError(cause) ==
    [kind |-> "error", status |-> 500, stage |-> "", cause |-> cause]

\* a request arrives at a debug endpoint: the limiter decides, then the body
\* saves the upload to a temp file, whatever its content type
DebugRequest(c, e) ==
    /\ pc = "idle"
    /\ Count(<<c, e>>) < MaxHits + (DebugBudget - Budget)
    /\ Hit(<<c, e>>)
    /\ caller' = c
    /\ ep' = e
    /\ final_output' = FALSE
    /\ events' = <<>>
    /\ calls' = <<>>
    /\ returned' = {}
    /\ unlinkFailed' = FALSE
    /\ elapsed' = 0
    /\ status_obj' = NoStatus
    /\ audio_url' = ""
    /\ sunoRequests' = {}
    /\ wall' = 0
    /\ fetches' = 0
    /\ steady' = TRUE
    /\ UNCHANGED <<probe, auxVars>>
    /\ IF ~Admitted(<<c, e>>)
       THEN /\ outcome' = Rejected429
            /\ pc' = "idle"
            /\ video' = NoVideo
            /\ files' = {}
       ELSE \E v \in Videos :
              /\ outcome' = NoOutcome
              /\ pc' = "analyze"
              /\ video' = v
              /\ files' = {"upload"}

\* analyze_video, then get_video_duration; analyze_only returns here
DebugAnalyze ==
    /\ ep \in DebugEndpoints /\ pc = "analyze"
    /\ calls' = Append(calls, "analyze")
    /\ \E ok \in BOOLEAN :
         IF ~ok
         THEN /\ outcome' = DebugError("analysis_failed")
              /\ returned' = returned
              /\ pc' = "finally"
         ELSE /\ returned' = returned \cup {"analyze"}
              /\ IF ~video.readable
                 THEN /\ outcome' = DebugError("no_duration")
                      /\ pc' = "finally"
                 ELSE IF ep = "analyze_only"
                 THEN /\ outcome' = DebugDone
                      /\ pc' = "finally"
                 ELSE /\ outcome' = outcome
                      /\ pc' = "prompt"
    /\ UNCHANGED <<limiterVars, requestVars, auxVars, pollVars, files,
                   final_output, events, unlinkFailed>>

\* prompt_only: generate_suno_prompt, then the response
DebugPrompt ==
    /\ ep = "prompt_only" /\ pc = "prompt"
    /\ calls' = Append(calls, "prompt")
    /\ \E r \in ComposePrompt(video.duration) :
         IF r = "ok"
         THEN /\ returned' = returned \cup {"prompt"}
              /\ outcome' = DebugDone
         ELSE /\ returned' = returned
              /\ outcome' = DebugError(r)
    /\ pc' = "finally"
    /\ UNCHANGED <<limiterVars, requestVars, auxVars, pollVars, files,
                   final_output, events, unlinkFailed>>

\* finally: the upload is deleted; an os.unlink that raises here replaces
\* the response
DebugFinally ==
    /\ ep \in DebugEndpoints /\ pc = "finally"
    /\ pc' = "idle"
    /\ \E ok \in BOOLEAN :
         IF ~ok
         THEN /\ unlinkFailed' = TRUE
              /\ files' = files
              /\ outcome' = DebugError("unlink_failed")
         ELSE /\ unlinkFailed' = unlinkFailed
              /\ files' = files \ {"upload"}
              /\ outcome' = outcome
    /\ UNCHANGED <<limiterVars, requestVars, auxVars, pollVars, final_output,
                   events, calls, returned>>

\* ------------------------------------------------- api/suno_generate.py
AudioStage == "Suno Audio Generation"

\* what one status fetch can bring back: an HTTP error, an empty clip
\* list, or the first clip with its status, locator and error message
Responses ==
    { [status |-> "fetch_error", audio_url |-> "", error_message |-> ""],
      [status |-> "not_found", audio_url |-> "", error_message |-> ""],
      [status |-> "submitted", audio_url |-> "", error_message |-> ""],
      [status |-> "processing", audio_url |-> "", error_message |-> ""],
      [status |-> "streaming", audio_url |-> "url1", error_message |-> ""],
      [status |-> "complete", audio_url |-> "", error_message |-> ""],
      [status |-> "error", audio_url |-> "", error_message |-> ""],
      [status |-> "error", audio_url |-> "", error_message |-> "quota"] }
    \cup { [status |-> "complete", audio_url |-> u, error_message |-> ""] :
             u \in Urls }

\* mutant of AudioReturns: the record closing the audio stage carries 50
AudioReturnsTypo ==
    /\ pc' = "merge"
    /\ returned' = returned \cup {"audio"}
    /\ outcome' = outcome
    /\ events' = IF ep = "stream"
                 THEN events \o <<Event("generating", 50),
                                  Event("combining", 85)>>
                 ELSE events

\* the handler resumes after generate_audio returned the audio path
AudioReturns ==
    /\ pc' = "merge"
    /\ returned' = returned \cup {"audio"}
    /\ outcome' = outcome
    /\ events' = IF ep = "stream"
                 THEN events \o <<Event("generating", 80),
                                  Event("combining", 85)>>
                 ELSE events

\* generate_audio, Step 1: the API key, the POST /generate, the job id
SunoSubmit ==
    /\ pc = "submit"
    /\ \E r \in {"no_api_key", "submit_failed", "bad_response", "ok"} :
         /\ sunoRequests' = IF r = "no_api_key" THEN sunoRequests
                            ELSE sunoRequests \cup {"generate"}
         /\ IF r = "ok"
            THEN /\ pc' = "poll"
                 /\ UNCHANGED <<events, outcome>>
            ELSE Raise(AudioStage, r)
    /\ elapsed' = 0
    /\ UNCHANGED <<limiterVars, requestVars, auxVars, status_obj, audio_url, wall,
                   fetches, steady, files, final_output, calls, returned,
                   unlinkFailed>>

\* mutant of Terminal: the status is compared with "completed"
TerminalTypo(resp) ==
    IF resp.status = "completed" /\ resp.audio_url # "" THEN "return"
    ELSE IF resp.status = "error" THEN "raise"
    ELSE "sleep"

\* the verdict of the loop body on a fetched status
Terminal(resp) ==
    IF resp.status = "complete" /\ resp.audio_url # "" THEN "return"
    ELSE IF resp.status = "error" THEN "raise"
    ELSE "sleep"

\* mutant of RemoteFailure: the remote message is dropped
RemoteFailureGeneric(resp) == "Suno generation failed: Unknown error"

\* the text of the RuntimeError raised on status "error": the error message
\* of the clip's metadata, "Unknown error" when there is none
RemoteFailure(resp) ==
    CASE resp.error_message = "quota" -> "Suno generation failed: quota"
      [] resp.error_message = "" -> "Suno generation failed: Unknown error"

\* mutant of PollIteration: the loop runs while elapsed <= MAX_WAIT_TIME
PollIterationOffByOne ==
    /\ pc = "poll"
    /\ elapsed <= MAX_WAIT_TIME
    /\ \E lat \in Latencies, resp \in Responses :
         /\ probe => (wall - elapsed) + lat <= MaxSlowFetches * SlowFetch
         /\ sunoRequests' = sunoRequests \cup {"clips"}
         /\ fetches' = IF probe THEN fetches + 1 ELSE fetches
         /\ steady' = IF probe THEN steady /\ resp.status = "processing"
                       ELSE steady
         /\ status_obj' = resp
         /\ CASE Terminal(resp) = "return" ->
                   /\ audio_url' = resp.audio_url
                   /\ pc' = "download"
                   /\ elapsed' = 0
                   /\ wall' = IF probe THEN wall + lat ELSE wall
                   /\ UNCHANGED <<events, outcome>>
              [] Terminal(resp) = "raise" ->
                   /\ Raise(AudioStage, RemoteFailure(resp))
                   /\ elapsed' = 0
                   /\ wall' = IF probe THEN wall + lat ELSE wall
                   /\ audio_url' = audio_url
              [] Terminal(resp) = "sleep" ->
                   /\ elapsed' = elapsed + POLL_INTERVAL
                   /\ wall' = IF probe THEN wall + lat + POLL_INTERVAL
                              ELSE wall
                   /\ UNCHANGED <<pc, audio_url, events, outcome>>
    /\ UNCHANGED <<limiterVars, requestVars, auxVars, files, final_output, calls,
                   returned, unlinkFailed>>

\* _poll_for_completion: one iteration of the while loop, that is one
\* status fetch taking lat seconds, then return, raise, or sleep
PollIteration ==
    /\ pc = "poll"
    /\ elapsed < MAX_WAIT_TIME
    /\ \E lat \in Latencies, resp \in Responses :
         /\ probe => (wall - elapsed) + lat <= MaxSlowFetches * SlowFetch
         /\ sunoRequests' = sunoRequests \cup {"clips"}
         /\ fetches' = IF probe THEN fetches + 1 ELSE fetches
         /\ steady' = IF probe THEN steady /\ resp.status = "processing"
                       ELSE steady
         /\ status_obj' = resp
         /\ CASE Terminal(resp) = "return" ->
                   /\ audio_url' = resp.audio_url
                   /\ pc' = "download"
                   /\ elapsed' = 0
                   /\ wall' = IF probe THEN wall + lat ELSE wall
                   /\ UNCHANGED <<events, outcome>>
              [] Terminal(resp) = "raise" ->
                   /\ Raise(AudioStage, RemoteFailure(resp))
                   /\ elapsed' = 0
                   /\ wall' = IF probe THEN wall + lat ELSE wall
                   /\ audio_url' = audio_url
              [] Terminal(resp) = "sleep" ->
                   /\ elapsed' = elapsed + POLL_INTERVAL
                   /\ wall' = IF probe THEN wall + lat + POLL_INTERVAL
                              ELSE wall
                   /\ UNCHANGED <<pc, audio_url, events, outcome>>
    /\ UNCHANGED <<limiterVars, requestVars, auxVars, files, final_output, calls,
                   returned, unlinkFailed>>

\* mutant of PollTimeout: the last fetch error is raised at the deadline
PollTimeoutNetwork ==
    /\ pc = "poll"
    /\ ~(elapsed < MAX_WAIT_TIME)
    /\ Raise(AudioStage, IF status_obj.status = "fetch_error"
                         THEN "fetch_error" ELSE "timeout")
    /\ elapsed' = 0
    /\ UNCHANGED <<limiterVars, requestVars, auxVars, status_obj, audio_url,
                   sunoRequests, wall, fetches, steady, files, final_output,
                   calls, returned, unlinkFailed>>

\* _poll_for_completion: the loop condition fails, TimeoutError is raised
PollTimeout ==
    /\ pc = "poll"
    /\ ~(elapsed < MAX_WAIT_TIME)
    /\ Raise(AudioStage, "timeout")
    /\ elapsed' = 0
    /\ UNCHANGED <<limiterVars, requestVars, auxVars, status_obj, audio_url,
                   sunoRequests, wall, fetches, steady, files, final_output,
                   calls, returned, unlinkFailed>>

\* mutant of SunoDownload: the temp file is created before the request
SunoDownloadLeak ==
    /\ pc = "download"
    /\ sunoRequests' = sunoRequests \cup {"download"}
    /\ files' = files \cup {"audio"}
    /\ \E ok \in BOOLEAN :
         IF ok
         THEN AudioReturns
         ELSE /\ Raise(AudioStage, "download_failed")
              /\ returned' = returned
    /\ UNCHANGED <<limiterVars, requestVars, auxVars, elapsed, status_obj, audio_url,
                   wall, fetches, steady, final_output, calls, unlinkFailed>>

\* generate_audio, Step 3: _download_audio writes the audio temp file
SunoDownload ==
    /\ pc = "download"
    /\ sunoRequests' = sunoRequests \cup {"download"}
    /\ \E ok \in BOOLEAN :
         IF ok
         THEN /\ files' = files \cup {"audio"}
              /\ AudioReturns
         ELSE /\ files' = files
              /\ Raise(AudioStage, "download_failed")
              /\ returned' = returned
    /\ UNCHANGED <<limiterVars, requestVars, auxVars, elapsed, status_obj, audio_url,
                   wall, fetches, steady, final_output, calls, unlinkFailed>>

\* -------------------------------------------------------- specifications
StreamStep ==
    \/ StreamValidate \/ StreamAnalyze \/ StreamPrompt \/ StreamAudio
    \/ StreamMerge \/ StreamCopy \/ StreamCleanup \/ StreamFinally

GenerateStep ==
    \/ GenerateValidate \/ GenerateAnalyze \/ GeneratePrompt
    \/ GenerateAudio \/ GenerateMerge \/ GenerateCopy \/ GenerateCleanup
    \/ GenerateFinally

SunoStep == SunoSubmit \/ PollIteration \/ PollTimeout \/ SunoDownload

RunStep == StreamStep \/ GenerateStep \/ SunoStep

Arrive == \E c \in Callers, e \in Endpoints : Request(c, e)

Next == Arrive \/ Tick \/ RunStep

\* the service: requests arrive one after the other, time passes
Spec == Init /\ [][Next]_vars


\* the records progress_generator has yielded when generate_audio is called
EventsBeforeAudio ==
    <<Event("uploading", 10), Event("analyzing", 15), Event("analyzing", 35),
      Event("prompting", 40), Event("prompting", 55),
      Event("generating", 60)>>

\* a first run of either endpoint at the entry of _poll_for_completion,
\* with the stopwatch and the fetch counter attached
PollInit ==
    /\ caller \in Callers
    /\ ep \in Endpoints
    /\ hits = [k \in Keys |-> IF k = <<caller, ep>> THEN 1 ELSE 0]
    /\ window = [k \in Keys |-> IF k = <<caller, ep>> THEN Hour ELSE 0]
    /\ pc = "poll"
    /\ probe = TRUE
    /\ video \in {v \in Videos : /\ v.readable
                                 /\ ~TooLong(v.duration)
                                 /\ "ok" \in ComposePrompt(v.duration)}
    /\ files = {"upload"}
    /\ final_output = FALSE
    /\ events = IF ep = "stream" THEN EventsBeforeAudio ELSE <<>>
    /\ calls = <<"analyze", "prompt", "audio">>
    /\ returned = {"analyze", "prompt"}
    /\ outcome = NoOutcome
    /\ unlinkFailed = FALSE
    /\ elapsed = 0
    /\ status_obj = NoStatus
    /\ audio_url = ""
    /\ sunoRequests = {"generate"}
    /\ wall = 0
    /\ fetches = 0
    /\ steady = TRUE
    /\ NoAux

PollNext ==
    \/ PollIteration \/ PollTimeout \/ SunoDownload
    \/ StreamMerge \/ StreamCopy \/ StreamCleanup \/ StreamFinally
    \/ GenerateMerge \/ GenerateCopy \/ GenerateCleanup \/ GenerateFinally

\* one run from the submission of the Suno job to its end, timed
PollSpec == PollInit /\ [][PollNext]_vars

\* the same run, scheduled to its end: the event loop resumes the
\* coroutine whenever the call it awaits has returned
PollLiveSpec == PollInit /\ [][PollNext]_vars /\ WF_vars(PollNext)

\* a state of the service at the entry of the poller is a state of PollInit
\* but for the probe
PollEntry ==
    (pc = "poll" /\ elapsed = 0 /\ "clips" \notin sunoRequests)
    => /\ video.readable /\ ~TooLong(video.duration)
       /\ "ok" \in ComposePrompt(video.duration)
       /\ files = {"upload"}
       /\ final_output = FALSE
       /\ events = IF ep = "stream" THEN EventsBeforeAudio ELSE <<>>
       /\ calls = <<"analyze", "prompt", "audio">>
       /\ returned = {"analyze", "prompt"}
       /\ outcome = NoOutcome
       /\ unlinkFailed = FALSE
       /\ status_obj = NoStatus
       /\ audio_url = ""
       /\ sunoRequests = {"generate"}
       /\ wall = 0
       /\ fetches = 0
       /\ steady


\* the service without the passing of time, its runs scheduled to the end:
\* the event loop resumes a handler whenever its awaited call has returned
LiveNext == Arrive \/ RunStep

LiveSpec == Init /\ [][LiveNext]_vars /\ WF_vars(RunStep)

\* the debug endpoints of the service
DebugArrive == \E c \in Callers, e \in DebugEndpoints : DebugRequest(c, e)

DebugNext ==
    DebugArrive \/ Tick \/ DebugAnalyze \/ DebugPrompt \/ DebugFinally

DebugSpec == Init /\ [][DebugNext]_vars

\* ---------------------------------------------------- runs side by side
\* names under which videos are uploaded ("" is an upload without a name)
Filenames == {"clip.mp4", "clip.mov", ""}

\* Path(video.filename).stem if video.filename else "output"
Stem(filename) ==
    CASE filename = "clip.mp4" -> "clip"
      [] filename = "clip.mov" -> "clip"
      [] filename = "" -> "output"

\* OUTPUT_DIR / f"output_{safe_filename}.mp4"
OutputName(filename) ==
    CASE Stem(filename) = "clip" -> "output_clip.mp4"
      [] Stem(filename) = "output" -> "output_output.mp4"

OutputNames == {OutputName(f) : f \in Filenames}

\* runs whose audio is generated, each about to merge; the outputs
\* directory is empty. A job's merged temp file holds content j, got is
\* the content its caller has received (0: nothing yet).
ConcInit ==
    /\ hits = [k \in Keys |-> 0]
    /\ window = [k \in Keys |-> 0]
    /\ caller = "none"
    /\ ep = "none"
    /\ pc = "idle"
    /\ probe = FALSE
    /\ FreshRun
    /\ calc = <<>>
    /\ jobs \in [1..NumJobs -> [ep : Endpoints, filename : Filenames,
                                pc : {"merge"}, got : {0}]]
    /\ outputs = [n \in OutputNames |-> 0]

ConcUnchanged ==
    UNCHANGED <<limiterVars, requestVars, pollVars, pc, files, final_output,
                events, calls, returned, outcome, unlinkFailed, calc>>

\* await combine_video_audio: the merged video is written to a temp file
\* of the run's own
ConcMerge(j) ==
    /\ jobs[j].pc = "merge"
    /\ \E ok \in BOOLEAN :
         jobs' = [jobs EXCEPT ![j].pc = IF ok THEN "copy" ELSE "failed"]
    /\ outputs' = outputs
    /\ ConcUnchanged

\* shutil.copy2(output_path, final_output) and what follows it without an
\* await: /api/generate reads final_output back and returns its bytes;
\* progress_generator yields the done record naming the file
ConcCopy(j) ==
    /\ jobs[j].pc = "copy"
    /\ \E ok \in BOOLEAN :
         IF ~ok
         THEN /\ jobs' = [jobs EXCEPT ![j].pc = "failed"]
              /\ outputs' = outputs
         ELSE /\ outputs' = [outputs EXCEPT ![OutputName(jobs[j].filename)] = j]
              /\ jobs' = IF jobs[j].ep = "generate"
                         THEN [jobs EXCEPT ![j].pc = "returned", ![j].got = j]
                         ELSE [jobs EXCEPT ![j].pc = "announced"]
    /\ ConcUnchanged

\* the caller of a streaming run asks for the file the done record named:
\* GET /api/outputs/{filename}
get_output_file(j) ==
    /\ jobs[j].pc = "announced"
    /\ outputs[OutputName(jobs[j].filename)] # 0
    /\ jobs' = [jobs EXCEPT ![j].pc = "fetched",
                            ![j].got = outputs[OutputName(jobs[j].filename)]]
    /\ outputs' = outputs
    /\ ConcUnchanged

ConcNext ==
    \E j \in 1..NumJobs : ConcMerge(j) \/ ConcCopy(j) \/ get_output_file(j)

ConcSpec == ConcInit /\ [][ConcNext]_vars

\* ------------------------------------------------ api/combine_media.py
\* the service at rest, while a function is looked at on its own
AtRest ==
    /\ hits = [k \in Keys |-> 0]
    /\ window = [k \in Keys |-> 0]
    /\ caller = "none"
    /\ ep = "none"
    /\ pc = "idle"
    /\ probe = FALSE
    /\ FreshRun
    /\ jobs = <<>>
    /\ outputs = <<>>

RestUnchanged ==
    UNCHANGED <<limiterVars, requestVars, pollVars, pc, files, final_output,
                events, calls, returned, outcome, unlinkFailed, jobs, outputs>>

\* clip.subclip(t_start, t_end): the duration of the part cut out
subclip(t_start, t_end) == t_end - t_start

\* mutant of TrimAudio: the audio is never trimmed
TrimAudioNever(V, A) == A

\* the duration of the audio clip set on the video: an audio longer than
\* the video is cut to the video's duration, any other is left as it is
TrimAudio(V, A) == IF A > V THEN subclip(0, V) ELSE A

\* video_clip.set_audio(audio_clip): the clip keeps the video's duration
\* and carries the audio from its start
set_audio(V, audio) == [duration |-> V, audio |-> audio]

\* what is heard in second t of the written clip
Heard(clip, t) == IF t < clip.audio THEN "audio" ELSE "silence"

\* no clip written yet
NoClip == [duration |-> 0, audio |-> 0]

\* a video of V seconds and an audio of A seconds, about to be merged
MergeInit ==
    /\ AtRest
    /\ \E V \in 1..MaxLen, A \in 1..MaxLen :
         calc = <<[V |-> V, A |-> A, done |-> FALSE,
                   final_clip |-> NoClip]>>

MergeApply ==
    /\ Len(calc) = 1 /\ ~calc[1].done
    /\ calc' = <<[calc[1] EXCEPT
                    !.done = TRUE,
                    !.final_clip = set_audio(calc[1].V,
                                             TrimAudio(calc[1].V, calc[1].A))]>>
    /\ RestUnchanged

MergeSpec == MergeInit /\ [][MergeApply]_vars

\* ------------------------------------------------- api/openai_prompt.py
Min(a, b) == IF a <= b THEN a ELSE b

\* mutant of Timings: the verse ends 3 seconds before the end of the video
TimingsLateVerse(D) ==
    [intro_end |-> Min(D, 3200),
     verse_end |-> 4 * D - 1200,
     outro_start |-> 4 * D - 1200]

\* the section timings of a video of D hundredths of a second, in units of
\* 1/400 s (in which 0.25 * d is D, 8 s is 3200 and d - 3 is 4 * D - 1200)
Timings(D) ==
    [intro_end |-> Min(D, 3200),
     verse_end |-> Min(3 * D, 4 * D - 1200),
     outro_start |-> Min(3 * D, 4 * D - 1200)]

\* durations in (0, 60]: every half second, and 17.4 s
TimedDurations == {D \in 1..MaxDuration : D % 50 = 0} \cup {1740}

\* no timings computed yet
NoTimings == [intro_end |-> 0, verse_end |-> 0, outro_start |-> 0]

TimingInit ==
    /\ AtRest
    /\ \E D \in TimedDurations :
         calc = <<[D |-> D, done |-> FALSE, t |-> NoTimings]>>

TimingApply ==
    /\ Len(calc) = 1 /\ ~calc[1].done
    /\ calc' = <<[calc[1] EXCEPT !.done = TRUE, !.t = Timings(calc[1].D)]>>
    /\ RestUnchanged

TimingSpec == TimingInit /\ [][TimingApply]_vars

\* --------------------------------- api/openai_prompt.py, the whole stage
DefaultTags == "Cinematic, 100 BPM"
DefaultNegativeTags == "harsh, distorted, chaotic, muddy, robotic"

\* a line of the generated text after strip(): its text, whether it
\* starts with "[", whether it holds a comma, and its length
LineKinds ==
    { [text |-> "", bracket |-> FALSE, comma |-> FALSE, len |-> 0],
      [text |-> "[Intro]", bracket |-> TRUE, comma |-> FALSE, len |-> 7],
      [text |-> "[Verse, 4 to 13 seconds]", bracket |-> TRUE, comma |-> TRUE,
       len |-> 24],
      [text |-> "Pop, Upbeat, 120 BPM", bracket |-> FALSE, comma |-> TRUE,
       len |-> 20],
      [text |-> "Walking down the road", bracket |-> FALSE, comma |-> FALSE,
       len |-> 21],
      [text |-> "Genre, long", bracket |-> FALSE, comma |-> TRUE,
       len |-> 120] }

\* response.choices[0].message.content.strip().split("\n"): at least one
\* line, and neither the first nor the last line of several is blank
GeneratedTexts ==
    { ls \in UNION {[1..n -> LineKinds] : n \in 1..MaxLines} :
        Len(ls) > 1 => (ls[1].len > 0 /\ ls[Len(ls)].len > 0) }

\* mutant of Suitable: a line of 120 characters passes
SuitableLax(line) == line.text # "" /\ line.comma /\ line.len <= 120

\* if candidate and "," in candidate and len(candidate) < 120
Suitable(line) == line.text # "" /\ line.comma /\ line.len < 120

\* the inner loop: the first suitable line among lines j..last, else the
\* default
RECURSIVE ScanCandidates(_, _, _)
ScanCandidates(lines, j, last) ==
    IF j > last THEN DefaultTags
    ELSE IF Suitable(lines[j]) THEN lines[j].text
    ELSE ScanCandidates(lines, j + 1, last)

\* the outer loop, from line i on: the first line that starts with "[" is
\* followed by the inner loop over the next two lines, and ends the search
RECURSIVE ExtractTags(_, _)
ExtractTags(lines, i) ==
    IF i > Len(lines) THEN DefaultTags
    ELSE IF lines[i].bracket
    THEN ScanCandidates(lines, i + 1, Min(i + 2, Len(lines)))
    ELSE ExtractTags(lines, i + 1)

\* the durations generate_suno_prompt is called with: none, zero, a
\* negative one and 17.4 s
PromptDurations ==
    { [given |-> FALSE, value |-> 0], [given |-> TRUE, value |-> 0],
      [given |-> TRUE, value |-> 0 - 100], [given |-> TRUE, value |-> 1740] }

\* not video_duration: None and zero are falsy
Falsy(duration) == ~duration.given \/ duration.value = 0

\* generate_suno_prompt is entered
PromptInit ==
    /\ AtRest
    /\ \E d \in PromptDurations :
         calc = <<[duration |-> d, pc |-> "check", requests |-> 0,
                   lines |-> <<>>, tags |-> "", negative_tags |-> "",
                   negative_call |-> "none", error |-> ""]>>

\* if not video_duration: raise ValueError
PromptCheck ==
    /\ Len(calc) = 1 /\ calc[1].pc = "check"
    /\ calc' = IF Falsy(calc[1].duration)
               THEN <<[calc[1] EXCEPT !.pc = "failed",
                                      !.error = "duration_required"]>>
               ELSE <<[calc[1] EXCEPT !.pc = "main"]>>
    /\ RestUnchanged

\* the chat completion, the text it brings and the tags taken from it
PromptMain ==
    /\ Len(calc) = 1 /\ calc[1].pc = "main"
    /\ \/ \E r \in {"api_failed", "no_content"} :
            calc' = <<[calc[1] EXCEPT !.pc = "failed",
                                      !.requests = @ + 1,
                                      !.error = r]>>
       \/ \E ls \in GeneratedTexts :
            calc' = <<[calc[1] EXCEPT !.pc = "negative",
                                      !.requests = @ + 1,
                                      !.lines = ls,
                                      !.tags = ExtractTags(ls, 1)]>>
    /\ RestUnchanged

\* mutant of PromptNegative: a failing negative-tag call fails the stage
PromptNegativeFatal ==
    /\ Len(calc) = 1 /\ calc[1].pc = "negative"
    /\ \E r \in {"ok", "raised"} :
         calc' = IF r = "ok"
                 THEN <<[calc[1] EXCEPT !.pc = "returned",
                                        !.requests = @ + 1,
                                        !.negative_call = r,
                                        !.negative_tags = "noisy, abrasive"]>>
                 ELSE <<[calc[1] EXCEPT !.pc = "failed",
                                        !.requests = @ + 1,
                                        !.negative_call = r,
                                        !.error = "api_failed"]>>
    /\ RestUnchanged

\* _generate_negative_tags and the return of the result: whatever the call
\* raises, the default negative tags are returned
PromptNegative ==
    /\ Len(calc) = 1 /\ calc[1].pc = "negative"
    /\ \E r \in {"ok", "raised"} :
         calc' = <<[calc[1] EXCEPT !.pc = "returned",
                                   !.requests = @ + 1,
                                   !.negative_call = r,
                                   !.negative_tags =
                                       IF r = "ok" THEN "noisy, abrasive"
                                       ELSE DefaultNegativeTags]>>
    /\ RestUnchanged

PromptNext == PromptCheck \/ PromptMain \/ PromptNegative

PromptSpec == PromptInit /\ [][PromptNext]_vars

\* ---------------------------------------- api/gcp_video_analysis.py
\* the wait loop gives up when retry_count exceeds this
RetryLimit == 60
\* seconds slept in one turn of the wait loop
TickSeconds == 5

Fallback ==
    "The video analysis returned minimal results. The video may be very short or contain limited visual content."

\* strings that strip() reduces to nothing
Whitespace == {"", " ", "\n"}

\* what the annotation holds: the number of shots, of shot labels, of
\* frame labels and of tracked objects
Annotations ==
    [shots : {0, 2}, shot_labels : {0, 1}, frame_labels : {0, 1},
     objects : {0, 1}]

NoAnnotation == [shots |-> 0, shot_labels |-> 0, frame_labels |-> 0,
                 objects |-> 0]

\* context_parts: each group that is not empty adds its heading and the
\* lines of its entries
ContextParts(a) ==
    (IF a.shots > 0
     THEN <<"=== SCENE BREAKDOWN ===">> \o [i \in 1..a.shots |-> "Scene"]
     ELSE <<>>)
    \o (IF a.shot_labels > 0
        THEN <<"\n=== DETECTED LABELS (per scene) ===">>
             \o [i \in 1..a.shot_labels |-> "Label"]
        ELSE <<>>)
    \o (IF a.frame_labels > 0
        THEN <<"\n=== FRAME-LEVEL LABELS ===">>
             \o [i \in 1..a.frame_labels |-> "- label"]
        ELSE <<>>)
    \o (IF a.objects > 0
        THEN <<"\n=== TRACKED OBJECTS ===">>
             \o [i \in 1..a.objects |-> "Object"]
        ELSE <<>>)

\* not "\n".join(parts).strip(): nothing but whitespace in the parts
Blank(parts) == \A i \in 1..Len(parts) : parts[i] \in Whitespace

\* mutant of BuildContext: the joined parts are returned as they are
BuildContextAsIs(a) == ContextParts(a)

\* the context returned, as the sequence of its lines
BuildContext(a) ==
    IF Blank(ContextParts(a)) THEN <<Fallback>> ELSE ContextParts(a)

\* analyze_video is entered: nothing uploaded yet
AnalyzeInit ==
    /\ AtRest
    /\ calc = <<[pc |-> "upload", retry_count |-> 0, waited |-> 0,
                 done |-> FALSE, cancels |-> 0, result_read |-> FALSE,
                 blob |-> "none", annotation |-> NoAnnotation,
                 context |-> <<>>, error |-> ""]>>

\* the upload to the bucket and the start of the annotate operation
AnalyzeUpload ==
    /\ Len(calc) = 1 /\ calc[1].pc = "upload"
    /\ \E r \in {"ok", "upload_failed", "api_failed"} :
         calc' = IF r = "ok"
                 THEN <<[calc[1] EXCEPT !.pc = "wait", !.blob = "present"]>>
                 ELSE <<[calc[1] EXCEPT
                           !.pc = "failed", !.error = r,
                           !.blob = IF r = "api_failed" THEN "present"
                                    ELSE "none"]>>
    /\ RestUnchanged

\* mutant of AnalyzeWait: the operation is not cancelled on timeout
AnalyzeWaitNoCancel ==
    /\ Len(calc) = 1 /\ calc[1].pc = "wait"
    /\ \E d \in BOOLEAN :
         calc' =
           IF d
           THEN <<[calc[1] EXCEPT !.done = TRUE, !.pc = "result"]>>
           ELSE IF calc[1].retry_count + 1 > RetryLimit
           THEN <<[calc[1] EXCEPT !.retry_count = @ + 1,
                                  !.waited = @ + TickSeconds,
                                  !.pc = "failed", !.error = "timeout"]>>
           ELSE <<[calc[1] EXCEPT !.retry_count = @ + 1,
                                  !.waited = @ + TickSeconds]>>
    /\ RestUnchanged

\* one turn of the wait loop: operation.done() is asked; if it is not
\* done, a sleep, the count, and past the limit the cancel and the
\* TimeoutError
AnalyzeWait ==
    /\ Len(calc) = 1 /\ calc[1].pc = "wait"
    /\ \E d \in BOOLEAN :
         calc' =
           IF d
           THEN <<[calc[1] EXCEPT !.done = TRUE, !.pc = "result"]>>
           ELSE IF calc[1].retry_count + 1 > RetryLimit
           THEN <<[calc[1] EXCEPT !.retry_count = @ + 1,
                                  !.waited = @ + TickSeconds,
                                  !.cancels = @ + 1,
                                  !.pc = "failed", !.error = "timeout"]>>
           ELSE <<[calc[1] EXCEPT !.retry_count = @ + 1,
                                  !.waited = @ + TickSeconds]>>
    /\ RestUnchanged

\* operation.result(), the deletion of the blob (a failure is only
\* logged), the context built from the annotation, the return
AnalyzeResult ==
    /\ Len(calc) = 1 /\ calc[1].pc = "result"
    /\ \/ calc' = <<[calc[1] EXCEPT !.pc = "failed",
                                    !.result_read = TRUE,
                                    !.error = "api_failed"]>>
       \/ \E a \in Annotations, deleted \in BOOLEAN :
            calc' = <<[calc[1] EXCEPT
                         !.pc = "returned",
                         !.result_read = TRUE,
                         !.blob = IF deleted THEN "deleted"
                                  ELSE "delete_failed",
                         !.annotation = a,
                         !.context = BuildContext(a)]>>
    /\ RestUnchanged

AnalyzeNext == AnalyzeUpload \/ AnalyzeWait \/ AnalyzeResult

AnalyzeSpec == AnalyzeInit /\ [][AnalyzeNext]_vars

\* ---------------------------------------------------------------- claims
StageOrder == <<"analyze", "prompt", "audio", "merge">>

\* the run being looked at has returned to its caller
RunReturned == pc = "idle" /\ ep \in Endpoints

\* C1: a video measured longer than 60 seconds is rejected by both entry
\* points before any stage adapter is invoked: such a run has no adapter
\* call and no request to the Suno API.
NoAdapterWhenTooLong ==
    (video.readable /\ video.duration > MaxDuration)
        => (calls = <<>> /\ returned = {} /\ sunoRequests = {})

\* a run on a video longer than 60 seconds has been rejected
TooLongRejected ==
    /\ RunReturned
    /\ video.readable /\ video.duration > MaxDuration
    /\ outcome.kind = "error" /\ outcome.cause = "too_long"

\* C2: the adapters are invoked in the order Analyze, Compose-Prompt,
\* Generate-Audio, Merge, each at most once, a stage only after the stage
\* before it returned successfully; after a failed stage (which never
\* returns) no adapter is invoked again.
StagesInOrder ==
    /\ Len(calls) <= Len(StageOrder)
    /\ \A i \in 1..Len(calls) : calls[i] = StageOrder[i]
    /\ \A i \in 1..Len(calls) : i < Len(calls) => calls[i] \in returned
    /\ \A st \in returned : \E i \in 1..Len(calls) : calls[i] = st

FixedStageOrder ==
    /\ [](StagesInOrder)
    /\ [][(pc # "idle" /\ outcome.kind = "error") => calls' = calls]_vars

\* a run stopped by the failure of Generate-Audio, Merge never invoked
StoppedAtAudio ==
    /\ RunReturned
    /\ calls = <<"analyze", "prompt", "audio">>
    /\ returned = {"analyze", "prompt"}
    /\ outcome.kind = "error"

\* C3 as stated: no progress record carries a percent lower than an earlier
\* record of the same run, failing runs included.
PercentNeverDecreases ==
    \A i, j \in 1..Len(events) :
        i < j => events[i].progress <= events[j].progress

\* C3: among the records of a streaming run that are not the error record
\* the percent never decreases; the error record, which carries percent 0,
\* is the only record lower than an earlier one.
PercentNeverDecreasesBeforeError ==
    \A i, j \in 1..Len(events) :
        (i < j /\ events[j] # ErrorEvent)
            => events[i].progress <= events[j].progress

\* a streaming run that failed at Merge, after eight progress records
StreamFailedLate ==
    /\ RunReturned /\ ep = "stream"
    /\ Len(events) = 9
    /\ events[9] = ErrorEvent
    /\ events[8].progress = 85

IsTerminal(e) ==
    \/ e.stage = "done" /\ e.progress = 100
    \/ e.stage = "error" /\ e.progress = 0

\* a streaming run is under way
StreamRunning == ep = "stream" /\ pc # "idle"

\* a streaming run has ended (the request was neither rejected by the
\* limiter nor refused for its content type)
StreamEnded == ep = "stream" /\ pc = "idle" /\ outcome.status \notin {429, 400}

\* a record of stage done or error is terminal, and it is the last record
TerminalIsLast ==
    \A i \in 1..Len(events) :
        (events[i].stage \in {"done", "error"} \/ IsTerminal(events[i]))
            => (IsTerminal(events[i]) /\ i = Len(events))

\* C4: every streaming run ends, and when it has ended its records hold
\* exactly one terminal record (done/100 or error/0), which is the last.
OneTerminalRecord ==
    /\ [](TerminalIsLast)
    /\ []((StreamEnded \/ (ep = "stream" /\ pc = "finally"))
            => (Len(events) > 0 /\ IsTerminal(events[Len(events)])))
    /\ (StreamRunning ~> StreamEnded)

\* a streaming run has ended on the done record
StreamDone ==
    /\ StreamEnded
    /\ Len(events) > 0
    /\ events[Len(events)] = Event("done", 100)

\* C5: once a run has returned, whether it succeeded or failed at a stage
\* or at the copy (no deletion having failed), none of its transient files
\* is left on disk.
NoArtifactLeft == (RunReturned /\ ~unlinkFailed) => files = {}

\* C6: when the status never leaves "processing", the timeout is raised at
\* a time since submission of at least MAX_WAIT_TIME and less than
\* MAX_WAIT_TIME + POLL_INTERVAL.
TimeoutWithinOneInterval ==
    (probe /\ steady /\ outcome.cause = "timeout")
        => (wall >= MAX_WAIT_TIME /\ wall < MAX_WAIT_TIME + POLL_INTERVAL)

\* C7: a poll that timed out has sent a cancellation to the Suno API.
CancelOnTimeout == (outcome.cause = "timeout") => ("cancel" \in sunoRequests)

\* C8: a status fetch that brings "complete" with a locator makes the
\* poller return that locator at once; once the poller has exited no
\* further status is fetched and the returned locator stays.
CompleteReturnsLocator ==
    /\ [][(pc = "poll" /\ fetches' = fetches + 1
            /\ status_obj'.status = "complete" /\ status_obj'.audio_url # "")
          => (pc' = "download" /\ audio_url' = status_obj'.audio_url)]_vars
    /\ [][pc # "poll" => (fetches' = fetches /\ audio_url' = audio_url)]_vars
    /\ [](audio_url # "" => (audio_url = status_obj.audio_url
                             /\ status_obj.status = "complete"))

\* submitted/processing statuses, then complete: the locator is returned
\* after the fourth fetch
LocatorReturned ==
    /\ pc = "download"
    /\ fetches = 4
    /\ audio_url = "url2"
    /\ status_obj.status = "complete"

\* C9: a fetch that brings "complete" without a locator fails the poll on
\* the spot: the poller does not go on polling.
MalformedCompletionFails ==
    (status_obj.status = "complete" /\ status_obj.audio_url = "")
        => (pc # "poll" /\ outcome.kind = "error")

\* requests of key k counted in its current window
InWindow(k) == IF window[k] = 0 THEN 0 ELSE hits[k]

\* the step is the arrival of a request of key k
Arrives(k) ==
    /\ pc = "idle"
    /\ caller' = k[1] /\ ep' = k[2]
    /\ \A j \in Keys : window'[j] >= window[j]

\* C10: for one caller and one endpoint, a request that finds fewer than 3
\* requests in the hour window is admitted (the body runs), one that finds
\* 3 or more is answered 429 before the body runs (no upload written, no
\* adapter or remote call), and after the window a request is admitted
\* again.
AdmissionBudget ==
    [][\A k \in Keys :
         Arrives(k) =>
           IF InWindow(k) < Budget
           THEN /\ outcome' # Rejected429
                /\ (pc' = "validate" /\ files' = {"upload"})
                     \/ outcome' = BadRequest400
           ELSE /\ outcome' = Rejected429
                /\ pc' = "idle"
                /\ files' = {} /\ calls' = <<>> /\ sunoRequests' = {}
                /\ events' = <<>>]_vars

\* the fourth request of a window has been rejected
FourthRejected ==
    /\ pc = "idle"
    /\ outcome = Rejected429
    /\ hits[<<caller, ep>>] = Budget + 1
    /\ files = {} /\ calls = <<>>

\* requests of caller c admitted on route e within the last hour: the hits
\* of the open window, of which the limiter let through at most the budget
AdmittedLastHour(c, e) ==
    IF InWindow(<<c, e>>) < BudgetOf(<<c, e>>)
    THEN InWindow(<<c, e>>) ELSE BudgetOf(<<c, e>>)

\* C11: one caller is never admitted to more than 3 pipeline runs within an
\* hour, /api/generate and /api/generate-stream counted together (the debug
\* routes draw on budgets of their own).
SharedPipelineBudget ==
    \A c \in Callers :
        AdmittedLastHour(c, "stream") + AdmittedLastHour(c, "generate")
            <= Budget

\* the name under which /api/generate reports the failure of a stage
StageLabel(st) ==
    CASE st = "analyze" -> "GCP Analysis"
      [] st = "prompt" -> "OpenAI Prompt Generation"
      [] st = "audio" -> AudioStage
      [] st = "merge" -> "Media Combination"

\* the run is over and its last stage adapter did not return: it failed
StageFailed ==
    /\ pc \in {"finally", "idle"} /\ ep \in Endpoints
    /\ Len(calls) > 0
    /\ calls[Len(calls)] \notin returned

\* C12: when a stage failed (and no deletion failed after it), what the
\* caller is told names the stage that failed and carries the root cause,
\* on /api/generate and on /api/generate-stream alike.
FailureNamesStage ==
    (StageFailed /\ ~unlinkFailed)
        => /\ outcome.kind = "error"
           /\ outcome.cause # ""
           /\ outcome.stage = StageLabel(calls[Len(calls)])

\* C13: a run reports success (the done record, or the response carrying
\* the video) only if the four stages returned in that run and the merged
\* file was copied to the outputs directory; a run with a failed stage
\* reports no success.
ReportsSuccess ==
    \/ outcome.kind = "done"
    \/ \E i \in 1..Len(events) : events[i].stage = "done"

SuccessOnlyAfterAllStages ==
    /\ ReportsSuccess
         => /\ calls = StageOrder
            /\ returned = {StageOrder[i] : i \in 1..Len(StageOrder)}
            /\ final_output
    /\ StageFailed => ~ReportsSuccess

\* /api/generate has answered with the video
GenerateServed ==
    /\ RunReturned /\ ep = "generate"
    /\ outcome = Done200
    /\ final_output

\* the four stages returned and the merged file was copied, not empty
PipelineSucceeded ==
    /\ returned = {StageOrder[i] : i \in 1..Len(StageOrder)}
    /\ final_output
    /\ outcome.cause # "empty_output"

\* C14: a deletion that fails is never escalated: after the four stages and
\* the copy succeeded the run still reports success, and after a failed
\* stage the stage's failure is still what is reported.
DeleteNotEscalated ==
    (RunReturned /\ unlinkFailed)
        => IF PipelineSucceeded
           THEN outcome.kind = "done"
           ELSE outcome.cause # "unlink_failed"

\* C17: every run that reaches a stage adapter has a measured duration d
\* with 0 < d <= 60 seconds.
ValidatedDuration ==
    (ep \in Endpoints /\ calls # <<>>)
        => /\ video.readable
           /\ 0 < video.duration
           /\ video.duration <= MaxDuration

\* the percents of the records progress_generator yields on a run without
\* failure
Checkpoints == <<10, 15, 35, 40, 55, 60, 80, 85, 100>>

Percents(evs) == [i \in 1..Len(evs) |-> evs[i].progress]

\* the number of checkpoints passed when a run fails: one when no stage was
\* called, and two for every stage called
CheckpointsBefore == IF calls = <<>> THEN 1 ELSE 2 * Len(calls)

\* C20: a streaming run that succeeded has yielded exactly the nine
\* checkpoints in order; a streaming run that failed has yielded the
\* checkpoints up to the one before the failing step, then the one error
\* record.
CheckpointSequence ==
    /\ (StreamEnded /\ outcome.kind = "done")
         => Percents(events) = Checkpoints
    /\ (StreamEnded /\ outcome.kind = "error")
         => /\ Len(events) = CheckpointsBefore + 1
            /\ events[Len(events)] = ErrorEvent
            /\ Percents(SubSeq(events, 1, CheckpointsBefore))
                 = SubSeq(Checkpoints, 1, CheckpointsBefore)

\* a streaming run has failed in generate_suno_prompt
StreamFailedAtPrompt ==
    /\ StreamEnded
    /\ calls = <<"analyze", "prompt">> /\ "prompt" \notin returned
    /\ Percents(events) = <<10, 15, 35, 40, 0>>

\* the stages that call a paid remote service
PaidStages == {"analyze", "prompt", "audio"}

\* C15: on the debug endpoints too, no paid stage is called for an uploaded
\* video that measures more than 60 seconds.
NoPaidCallWhenTooLong ==
    (video.readable /\ TooLong(video.duration))
        => \A i \in 1..Len(calls) : calls[i] \notin PaidStages

\* C16: whatever the uploaded filenames, the final video a run's caller
\* receives (in the response of /api/generate, or under the name the done
\* record announced) is the content that run's own merge produced.
OwnArtifact ==
    \A j \in DOMAIN jobs : jobs[j].got # 0 => jobs[j].got = j

\* C18: the merged clip has the video's length V; an audio longer than the
\* video is cut to exactly V; an audio of length A <= V keeps length A, is
\* heard from 0 to A and the clip is silent from A to V.
MergeOutputLength ==
    \A i \in DOMAIN calc :
        calc[i].done =>
            LET V == calc[i].V
                A == calc[i].A
                out == calc[i].final_clip
            IN  /\ out.duration = V
                /\ A > V => out.audio = V
                /\ A <= V =>
                     /\ out.audio = A
                     /\ \A t \in 0..(A - 1) : Heard(out, t) = "audio"
                     /\ \A t \in A..(V - 1) : Heard(out, t) = "silence"

\* an audio longer than the video has been merged
AudioTruncated ==
    /\ Len(calc) = 1 /\ calc[1].done
    /\ calc[1].A > calc[1].V
    /\ calc[1].final_clip = [duration |-> calc[1].V, audio |-> calc[1].V]

\* x is the smaller of a and b
IsMin(x, a, b) == x <= a /\ x <= b /\ x \in {a, b}

\* C19, as stated: for every d in (0, 60] the timings are the two minima,
\* intro_end <= verse_end <= d, and d = 17.4 gives 4.35, 14.4 and 14.4.
SectionTimingsAsStated ==
    \A i \in DOMAIN calc :
        calc[i].done =>
            LET D == calc[i].D
                t == calc[i].t
            IN  /\ IsMin(t.intro_end, D, 3200)
                /\ IsMin(t.verse_end, 3 * D, 4 * D - 1200)
                /\ t.outro_start = t.verse_end
                /\ t.intro_end <= t.verse_end
                /\ t.verse_end <= 4 * D
                /\ D = 1740 => /\ t.intro_end = 1740
                               /\ t.verse_end = 5760
                               /\ t.outro_start = 5760

\* C19, amended: for every d in (0, 60] the timings are the two minima,
\* outro_start = verse_end <= d, and intro_end <= verse_end exactly when
\* d >= 4 (verse_end is negative when d < 3); d = 17.4 gives 4.35, 13.05
\* and 13.05.
SectionTimings ==
    \A i \in DOMAIN calc :
        calc[i].done =>
            LET D == calc[i].D
                t == calc[i].t
            IN  /\ IsMin(t.intro_end, D, 3200)
                /\ IsMin(t.verse_end, 3 * D, 4 * D - 1200)
                /\ t.outro_start = t.verse_end
                /\ t.verse_end <= 4 * D
                /\ (t.intro_end <= t.verse_end) <=> (D >= 400)
                /\ (t.verse_end < 0) <=> (D < 300)
                /\ D = 1740 => /\ t.intro_end = 1740
                               /\ t.verse_end = 5220
                               /\ t.outro_start = 5220

\* the timings of a 17.4 s video have been computed
TimedExample ==
    /\ Len(calc) = 1 /\ calc[1].done
    /\ calc[1].D = 1740
    /\ calc[1].t.verse_end = 5220

\* the step is a status fetch
Fetched == pc = "poll" /\ fetches' = fetches + 1

\* C21: a status fetch that fails leaves the poller polling: it sleeps one
\* interval and nothing is reported; a complete status with a locator
\* fetched right after a failed fetch returns the locator; and a poll left
\* after a failed fetch without a new fetch ends with the timeout error.
FetchFailureRetried ==
    /\ [][(Fetched /\ status_obj'.status = "fetch_error")
            => /\ pc' = "poll"
               /\ elapsed' = elapsed + POLL_INTERVAL
               /\ outcome' = outcome
               /\ audio_url' = audio_url]_vars
    /\ [][(Fetched /\ status_obj.status = "fetch_error"
             /\ status_obj'.status = "complete"
             /\ status_obj'.audio_url # "")
            => (pc' = "download" /\ audio_url' = status_obj'.audio_url)]_vars
    /\ [][(pc = "poll" /\ status_obj.status = "fetch_error"
             /\ pc' # "poll" /\ ~Fetched)
            => (outcome'.kind = "error" /\ outcome'.cause = "timeout")]_vars
    /\ [](outcome.cause # "fetch_error")

\* the last fetch before the deadline failed and the poll timed out
TimedOutOnFailedFetch ==
    /\ probe
    /\ outcome.cause = "timeout"
    /\ status_obj.status = "fetch_error"
    /\ fetches = MAX_WAIT_TIME \div POLL_INTERVAL

\* C22: a status fetch that brings status "error" ends the poll in that
\* step, without a sleep, with an error that carries the remote error
\* message and is not the timeout error; no status is fetched afterwards.
RemoteErrorStopsPoll ==
    /\ [][(Fetched /\ status_obj'.status = "error")
            => /\ pc' = "finally"
               /\ elapsed' # elapsed + POLL_INTERVAL
               /\ outcome'.kind = "error"
               /\ outcome'.cause # "timeout"
               /\ status_obj'.error_message = "quota"
                    => outcome'.cause = "Suno generation failed: quota"]_vars
    /\ [](status_obj.status = "error" => pc # "poll")
    /\ [][status_obj.status = "error" => sunoRequests' = sunoRequests]_vars

\* the third status fetch brought status "error" with a message
RemoteJobFailed ==
    /\ probe
    /\ fetches = 3
    /\ status_obj = [status |-> "error", audio_url |-> "",
                     error_message |-> "quota"]
    /\ outcome.cause = "Suno generation failed: quota"

\* C23: generate_suno_prompt fails for every duration that is absent, zero
\* or negative, and has then sent no request to the OpenAI API.
PromptNeedsPositiveDuration ==
    \A i \in DOMAIN calc :
        (calc[i].pc # "check"
           /\ (~calc[i].duration.given \/ calc[i].duration.value <= 0))
            => /\ calc[i].pc = "failed"
               /\ calc[i].error = "duration_required"
               /\ calc[i].requests = 0

\* the lines of ls that follow its first line starting with "[", two at
\* most
CandidateLines(ls) ==
    LET H == {i \in 1..Len(ls) : ls[i].bracket}
    IN  IF H = {} THEN {}
        ELSE LET h == CHOOSE i \in H : \A k \in H : i <= k
             IN  {j \in {h + 1, h + 2} : j <= Len(ls)}

NegativeTagFailureNotFatal ==
    /\ [][(Len(calc) = 1 /\ calc[1].pc = "negative" /\ calc' # calc)
            => /\ calc'[1].pc = "returned"
               /\ calc'[1].lines = calc[1].lines
               /\ calc'[1].tags = calc[1].tags /\ calc'[1].tags # ""
               /\ calc'[1].negative_tags # ""
               /\ calc'[1].negative_call = "raised"
                    => calc'[1].negative_tags = DefaultNegativeTags]_vars
    /\ [](\A i \in DOMAIN calc :
            calc[i].pc = "failed" => calc[i].negative_call = "none")

\* the negative-tag call raised and the stage returned
NegativeTagsDefaulted ==
    /\ Len(calc) = 1 /\ calc[1].pc = "returned"
    /\ calc[1].negative_call = "raised"
    /\ calc[1].negative_tags = DefaultNegativeTags
    /\ calc[1].tags = "Pop, Upbeat, 120 BPM"

\* C26: whenever analyze_video returns, the context is not blank; an
\* annotation without shots, labels and objects gives the fallback
\* sentence, any other the parts built from it.
ContextNeverBlank ==
    \A i \in DOMAIN calc :
        calc[i].pc = "returned" =>
            /\ \E j \in 1..Len(calc[i].context) :
                   calc[i].context[j] \notin Whitespace
            /\ (calc[i].annotation = NoAnnotation)
                 <=> (calc[i].context = <<Fallback>>)

\* an empty annotation has been turned into the fallback sentence
FallbackReturned ==
    /\ Len(calc) = 1 /\ calc[1].pc = "returned"
    /\ calc[1].annotation = NoAnnotation
    /\ calc[1].context = <<Fallback>>

PollerTerminates ==
    /\ (pc = "poll" ~> pc # "poll")
    /\ [](fetches <= MAX_WAIT_TIME \div POLL_INTERVAL /\ fetches <= 60)
    /\ [][(pc = "poll" /\ pc' # "poll")
            => \/ pc' = "download" /\ audio_url' # ""
               \/ /\ pc' = "finally" /\ outcome'.kind = "error"
                  /\ \/ outcome'.cause = "timeout"
                     \/ /\ status_obj'.status = "error"
                        /\ outcome'.cause # "timeout"]_vars

\* the locator came with the last fetch the deadline allows
ReturnedAtLastFetch ==
    /\ probe
    /\ pc = "download"
    /\ fetches = 60
    /\ audio_url # ""

====
